---- MODULE Spec2Model ----
(***************************************************************************)
(* Model of src/helpers/limitless_client.py: PolymarketClient (scoped HTTP *)
(* session, fetch_crypto_markets with its retry loop, relevance filter and *)
(* timeframe buckets) and the static analyze_markets.                      *)
(*                                                                         *)
(* Text is a sequence of one-character strings, so that upper(), split()   *)
(* and the substring tests of the code are computed, not assumed.          *)
(* Probabilities are exact decimals counted in units of 1/Scale; a mean is *)
(* the pair [num, den] standing for num / (den * Scale).  The code         *)
(* computes in IEEE doubles: the model is its exact-arithmetic reading.    *)
(***************************************************************************)
EXTENDS Integers, Sequences, FiniteSets, TLC

VARIABLES
    \* ---- PolymarketClient and one caller using it
    session,          \* self._session: "none" or "open"
    opened,           \* ClientSession objects created so far
    released,         \* ClientSession objects closed so far
    scope,            \* the caller's place: "before", "inside", "after" the async with
    \* ---- one execution of fetch_crypto_markets
    fpc,              \* "idle", "attempt", "sleep", "filter", "returned", "raised"
    symbol,           \* the symbol argument
    attempt,          \* the loop variable of the retry loop
    events,           \* what this execution did to the outside: requests and sleeps
    err,              \* the exception that left fetch_crypto_markets, "" if none
    fetched,          \* markets: the decoded response of GET /markets
    idx,              \* position of the filter loop in fetched (1-based)
    categorized,      \* bucket name -> sequence of positions of fetched
    \* ---- one execution of analyze_markets
    apc,              \* "idle", "start", "loop", "done"
    markets,          \* the markets argument
    i,                \* position of the loop in markets (1-based)
    bullish_signals,
    bearish_signals,
    analyzed,
    avg_bullish,
    avg_bearish,
    diff,
    direction,
    confidence,
    signal_strength,
    result            \* the returned dict

clientVars == <<session, opened, released, scope>>
fetchVars == <<fpc, symbol, attempt, events, err, fetched, idx, categorized>>
analyzeLocals == <<avg_bullish, avg_bearish, diff, direction, confidence, signal_strength>>
analyzeVars == <<apc, markets, i, bullish_signals, bearish_signals, analyzed,
                 avg_bullish, avg_bearish, diff, direction, confidence,
                 signal_strength, result>>
vars == <<clientVars, fetchVars, analyzeVars>>

---------------------------------------------------------------------------
(* Bounds *)

\* longest list handed to analyze_markets
MaxMarkets == 3
\* longest response of GET /markets
MaxFetched == 3
\* the threshold grid: diff and confidence range over 0 .. MaxPercent hundredths
MaxPercent == 100
\* decimals the model keeps of a probability
FracDigits == 4

---------------------------------------------------------------------------
(* Text *)

LowerChars == <<"a", "b", "c", "d", "e", "f", "g", "h", "i", "j", "k", "l", "m", "n", "o", "p", "q", "r", "s", "t", "u", "v", "w", "x", "y", "z">>
UpperChars == <<"A", "B", "C", "D", "E", "F", "G", "H", "I", "J", "K", "L", "M", "N", "O", "P", "Q", "R", "S", "T", "U", "V", "W", "X", "Y", "Z">>
DigitChars == <<"0", "1", "2", "3", "4", "5", "6", "7", "8", "9">>

IsDigit(c) == \E k \in 1..Len(DigitChars) : DigitChars[k] = c
DigitVal(c) == (CHOOSE k \in 1..Len(DigitChars) : DigitChars[k] = c) - 1

\* the letters str.upper() changes, and what it makes of them
UpperMap ==
    [c \in {LowerChars[k] : k \in 1..Len(LowerChars)} |->
        UpperChars[CHOOSE k \in 1..Len(LowerChars) : LowerChars[k] = c]]

\* str.upper()
UpperChar(c) == IF c \in DOMAIN UpperMap THEN UpperMap[c] ELSE c
Upper(s) == [k \in 1..Len(s) |-> UpperChar(s[k])]

\* str.lower(), used only to state case-insensitive matching
LowerMap ==
    [c \in {UpperChars[k] : k \in 1..Len(UpperChars)} |->
        LowerChars[CHOOSE k \in 1..Len(UpperChars) : UpperChars[k] = c]]
LowerChar(c) == IF c \in DOMAIN LowerMap THEN LowerMap[c] ELSE c
Lower(s) == [k \in 1..Len(s) |-> LowerChar(s[k])]

\* kw in s
Contains(s, kw) ==
    \E k \in 0..(Len(s) - Len(kw)) : SubSeq(s, k + 1, k + Len(kw)) = kw

\* any(kw in s for kw in kws)
AnyIn(s, kws) == \E kw \in kws : Contains(s, kw)

\* s.split(",")
RECURSIVE Split(_)
Split(s) ==
    IF \A k \in 1..Len(s) : s[k] # ","
    THEN <<s>>
    ELSE LET c == CHOOSE k \in 1..Len(s) : s[k] = "," /\ \A j \in 1..(k - 1) : s[j] # ","
         IN  <<SubSeq(s, 1, c - 1)>> \o Split(SubSeq(s, c + 1, Len(s)))

\* dict.get(key, default)
Get(m, key, default) == IF key \in DOMAIN m THEN m[key] ELSE default

---------------------------------------------------------------------------
(* Numbers *)

RECURSIVE Pow10(_)
Pow10(n) == IF n = 0 THEN 1 ELSE 10 * Pow10(n - 1)

\* Probabilities are counted in units of 10^-FracDigits.
Scale == Pow10(FracDigits)

\* the decimal literal n * 10^-places, counted in 1/Scale
Dec(n, places) == (n * Scale) \div Pow10(places)

RECURSIVE DigitsValue(_)
DigitsValue(ds) ==
    IF ds = <<>> THEN 0
    ELSE 10 * DigitsValue(SubSeq(ds, 1, Len(ds) - 1)) + DigitVal(ds[Len(ds)])

\* float(p) on text made of digits, "." and letters that form no float word
\* (no sign, blank, exponent, inf or nan): digits with at most one point and at
\* least one digit parse, anything else raises ValueError.  The value is exact
\* for up to FracDigits decimals, which is all the inputs carry.
ParseFloat(p) ==
    LET dots == {k \in 1..Len(p) : p[k] = "."}
        wellFormed == /\ \A k \in 1..Len(p) : IsDigit(p[k]) \/ p[k] = "."
                      /\ Cardinality(dots) <= 1
                      /\ \E k \in 1..Len(p) : IsDigit(p[k])
        dot == IF dots = {} THEN Len(p) + 1 ELSE CHOOSE k \in dots : TRUE
        whole == SubSeq(p, 1, dot - 1)
        frac == SubSeq(p, dot + 1, Len(p))
        kept == SubSeq(frac, 1, IF Len(frac) < FracDigits THEN Len(frac) ELSE FracDigits)
    IN  IF wellFormed
        THEN [ok |-> TRUE,
              v |-> DigitsValue(whole) * Scale + DigitsValue(kept) * Pow10(FracDigits - Len(kept))]
        ELSE [ok |-> FALSE, v |-> 0]

RECURSIVE Sum(_)
Sum(xs) == IF xs = <<>> THEN 0 ELSE xs[1] + Sum(Tail(xs))

Abs(x) == IF x < 0 THEN 0 - x ELSE x

\* a value num / (den * Scale)
Rat(n, d) == [num |-> n, den |-> d]
Zero == Rat(0, 1)
Half == Rat(Dec(5, 1), 1)
One == Rat(Scale, 1)

RatGt(a, b) == a.num * b.den > b.num * a.den
RatEq(a, b) == a.num * b.den = b.num * a.den
RatAdd(a, b) == Rat(a.num * b.den + b.num * a.den, a.den * b.den)
RatAbsDiff(a, b) == Rat(Abs(a.num * b.den - b.num * a.den), a.den * b.den)
\* a > c, c a literal counted in 1/Scale
RatGtLit(a, c) == a.num > c * a.den

\* round(x, 3), in thousandths.  Away from a tie the nearest thousandth; on an
\* exact decimal tie the double nearest to x decides, so either neighbour.
Round3(x) ==
    LET unit == x.den * (Scale \div 1000)
        lo == x.num \div unit
        rest == x.num % unit
    IN  IF 2 * rest < unit THEN {lo}
        ELSE IF 2 * rest > unit THEN {lo + 1}
        ELSE {lo, lo + 1}

---------------------------------------------------------------------------
(* Values of a market record's fields *)

\* A field value other than a question: a str (its characters), or a value of
\* another type ("list": a non-empty list, "none": None).
Str(s) == [t |-> "str", s |-> s]
NonEmptyList == [t |-> "list", s |-> <<>>]
NoneValue == [t |-> "none", s |-> <<>>]

\* bool(v)
Truthy(v) ==
    CASE v.t = "str" -> v.s # <<>>
      [] v.t = "list" -> TRUE
      [] OTHER -> FALSE

---------------------------------------------------------------------------
(* analyze_markets *)

BullishKeywords == {<<"A", "B", "O", "V", "E">>, <<"H", "I", "G", "H", "E", "R">>, <<"R", "E", "A", "C", "H">>, <<"E", "X", "C", "E", "E", "D">>}
BearishKeywords == {<<"B", "E", "L", "O", "W">>, <<"L", "O", "W", "E", "R">>, <<"F", "A", "L", "L">>, <<"D", "R", "O", "P">>}

\* diff > 0.3 and confidence > 0.7; diff > 0.15 and confidence > 0.6
StrongDiff == Dec(3, 1)
StrongConfidence == Dec(7, 1)
ModerateDiff == Dec(15, 2)
ModerateConfidence == Dec(6, 1)
DefaultProbability == Dec(5, 1)

\* The markets analyze_markets is tried on.
Q_AboveAndFall == <<"W", "i", "l", "l", " ", "E", "T", "H", " ", "b", "e", " ", "a", "b", "o", "v", "e", " ", "$", "3", "0", "0", "0", " ", "a", "n", "d", " ", "n", "o", "t", " ", "f", "a", "l", "l", " ", "b", "e", "l", "o", "w", " ", "$", "2", "5", "0", "0", "?">>
Q_AboveFriday == <<"W", "i", "l", "l", " ", "E", "T", "H", " ", "b", "e", " ", "a", "b", "o", "v", "e", " ", "$", "4", "0", "0", "0", " ", "b", "y", " ", "F", "r", "i", "d", "a", "y", "?">>
Q_DropLower == <<"e", "t", "h", " ", "t", "o", " ", "d", "r", "o", "p", " ", "l", "o", "w", "e", "r">>
Q_Price24Hour == <<"E", "T", "H", " ", "p", "r", "i", "c", "e", " ", "2", "4", " ", "h", "o", "u", "r", " ", "h", "i", "g", "h">>
Q_Above == <<"E", "T", "H", " ", "a", "b", "o", "v", "e">>
Q_Below == <<"E", "T", "H", " ", "b", "e", "l", "o", "w">>

AnalyzeCatalog ==
    { [question |-> Q_AboveAndFall, outcomePrices |-> Str(<<"0", ".", "8", ",", "0", ".", "2">>)],
      [question |-> Q_AboveFriday,  outcomePrices |-> Str(<<"0", ".", "7", ",", "0", ".", "3">>)],
      [question |-> Q_DropLower,    outcomePrices |-> Str(<<"0", ".", "8", ",", "0", ".", "2">>)],
      [question |-> Q_Price24Hour,  outcomePrices |-> Str(<<"0", ".", "9", ",", "0", ".", "1">>)],
      [question |-> Q_Above,        outcomePrices |-> Str(<<"0", ".", "5", "0", "0", "1", ",", "0", ".", "4", "9", "9", "9">>)],
      [question |-> Q_Above,        outcomePrices |-> Str(<<"0", ".", "5", "2", ",", "a", "b", "c">>)],
      [question |-> Q_Above,        outcomePrices |-> Str(<<"a", "b", "c", ",", "0", ".", "9">>)],
      [question |-> Q_Above,        outcomePrices |-> Str(<<>>)],
      [question |-> Q_Below,        outcomePrices |-> NonEmptyList],
      [question |-> Q_Below,        outcomePrices |-> NoneValue],
      [question |-> Q_Below] }

\* sequences over S of length 0 .. n
SeqsUpTo(S, n) == UNION {[1..k -> S] : k \in 0..n}

\* lines 139-146 parsing the first element only
YesPriceFirstOnly(market) ==
    LET outcome_prices == Get(market, "outcomePrices", Str(<<>>))
    IN  IF Truthy(outcome_prices) /\ outcome_prices.t = "str"
        THEN LET first == ParseFloat(Split(outcome_prices.s)[1])
             IN  IF first.ok THEN first.v ELSE DefaultProbability
        ELSE DefaultProbability

\* lines 139-146: the try block around the parse of outcomePrices
YesPrice(market) ==
    LET outcome_prices == Get(market, "outcomePrices", Str(<<>>))
    IN  IF Truthy(outcome_prices) /\ outcome_prices.t = "str"
        THEN LET parts == Split(outcome_prices.s)
                 prices == [k \in 1..Len(parts) |-> ParseFloat(parts[k])]
             IN  IF \E k \in 1..Len(parts) : ~prices[k].ok
                 THEN DefaultProbability              \* except: yes_price = 0.5
                 ELSE IF Len(prices) > 0 THEN prices[1].v ELSE DefaultProbability
        ELSE DefaultProbability

is_bullish_question(question) == AnyIn(Upper(question), BullishKeywords)
is_bearish_question(question) == AnyIn(Upper(question), BearishKeywords)

MarketInfo(market, yes_price) ==
    [question |-> Get(market, "question", <<>>),
     yes_probability |-> yes_price,
     no_probability |-> Scale - yes_price,
     volume |-> Get(market, "volume", "0"),
     end_date |-> Get(market, "endDate", "")]

\* lines 163-170 with two independent ifs
InterpretBothBranches(signals, question, yes_price) ==
    LET a == IF is_bullish_question(question)
             THEN [bullish |-> Append(signals.bullish, yes_price),
                   bearish |-> Append(signals.bearish, Scale - yes_price)]
             ELSE signals
    IN  IF is_bearish_question(question)
        THEN [bullish |-> Append(a.bullish, Scale - yes_price),
              bearish |-> Append(a.bearish, yes_price)]
        ELSE a

\* lines 163-170 with the bearish branch adding its sample to one list only
InterpretOneSided(signals, question, yes_price) ==
    IF is_bullish_question(question)
    THEN [bullish |-> Append(signals.bullish, yes_price),
          bearish |-> Append(signals.bearish, Scale - yes_price)]
    ELSE IF is_bearish_question(question)
    THEN [bullish |-> signals.bullish,
          bearish |-> Append(signals.bearish, yes_price)]
    ELSE signals

\* lines 163-170: the samples one market adds
Interpret(signals, question, yes_price) ==
    IF is_bullish_question(question)
    THEN [bullish |-> Append(signals.bullish, yes_price),
          bearish |-> Append(signals.bearish, Scale - yes_price)]
    ELSE IF is_bearish_question(question)
    THEN [bullish |-> Append(signals.bullish, Scale - yes_price),
          bearish |-> Append(signals.bearish, yes_price)]
    ELSE signals

\* sum(xs) / len(xs) if xs else 0.5
Average(xs) == IF xs # <<>> THEN Rat(Sum(xs), Len(xs)) ELSE Half

\* lines 179-187 deciding on the rounded averages
DecideRounded(ab, ar) ==
    LET rb == CHOOSE r \in Round3(ab) : \A s \in Round3(ab) : r <= s
        rr == CHOOSE r \in Round3(ar) : \A s \in Round3(ar) : r <= s
    IN  IF rb > rr THEN [direction |-> "buy", confidence |-> ab]
        ELSE IF rr > rb THEN [direction |-> "sell", confidence |-> ar]
        ELSE [direction |-> "neutral", confidence |-> Half]

\* lines 179-187
Decide(ab, ar) ==
    IF RatGt(ab, ar) THEN [direction |-> "buy", confidence |-> ab]
    ELSE IF RatGt(ar, ab) THEN [direction |-> "sell", confidence |-> ar]
    ELSE [direction |-> "neutral", confidence |-> Half]

\* lines 190-195 with >= for >
SignalStrengthNonStrict(d, c) ==
    IF ~RatGt(Rat(StrongDiff, 1), d) /\ ~RatGt(Rat(StrongConfidence, 1), c)
    THEN "strong"
    ELSE IF ~RatGt(Rat(ModerateDiff, 1), d) /\ ~RatGt(Rat(ModerateConfidence, 1), c)
    THEN "moderate"
    ELSE "weak"

\* lines 190-195 with "none" for a zero difference
SignalStrengthNoneOnTie(d, c) ==
    IF d.num = 0 THEN "none"
    ELSE IF RatGtLit(d, StrongDiff) /\ RatGtLit(c, StrongConfidence) THEN "strong"
    ELSE IF RatGtLit(d, ModerateDiff) /\ RatGtLit(c, ModerateConfidence) THEN "moderate"
    ELSE "weak"

\* lines 190-195
SignalStrength(d, c) ==
    IF RatGtLit(d, StrongDiff) /\ RatGtLit(c, StrongConfidence) THEN "strong"
    ELSE IF RatGtLit(d, ModerateDiff) /\ RatGtLit(c, ModerateConfidence) THEN "moderate"
    ELSE "weak"

\* lines 118-127: the fixed result of an empty list (numbers in thousandths)
EmptyResult ==
    [direction |-> "neutral", confidence |-> 0, signal_strength |-> "none",
     markets_analyzed |-> 0, bullish_probability |-> 500,
     bearish_probability |-> 500, markets |-> <<>>]

AnalyzeIdle ==
    /\ apc = "idle" /\ markets = <<>> /\ i = 0
    /\ bullish_signals = <<>> /\ bearish_signals = <<>> /\ analyzed = <<>>
    /\ avg_bullish = Zero /\ avg_bearish = Zero /\ diff = Zero
    /\ direction = "" /\ confidence = Zero /\ signal_strength = ""
    /\ result = [direction |-> ""]

\* if not markets: return {...}
AnalyzeEmpty ==
    /\ apc = "start" /\ markets = <<>>
    /\ result' = EmptyResult
    /\ apc' = "done"
    /\ UNCHANGED <<markets, i, bullish_signals, bearish_signals, analyzed, analyzeLocals>>
    /\ UNCHANGED <<clientVars, fetchVars>>

\* lines 129-131
AnalyzeBegin ==
    /\ apc = "start" /\ markets # <<>>
    /\ bullish_signals' = <<>> /\ bearish_signals' = <<>> /\ analyzed' = <<>>
    /\ i' = 1
    /\ apc' = "loop"
    /\ UNCHANGED <<markets, analyzeLocals, result>>
    /\ UNCHANGED <<clientVars, fetchVars>>

\* lines 133-170: one turn of the loop over markets
AnalyzeMarket ==
    /\ apc = "loop" /\ i <= Len(markets)
    /\ LET market == markets[i]
           question == Get(market, "question", <<>>)
           yes_price == YesPrice(market)
           signals == Interpret([bullish |-> bullish_signals, bearish |-> bearish_signals],
                                question, yes_price)
       IN  /\ analyzed' = Append(analyzed, MarketInfo(market, yes_price))
           /\ bullish_signals' = signals.bullish
           /\ bearish_signals' = signals.bearish
    /\ i' = i + 1
    /\ UNCHANGED <<apc, markets, analyzeLocals, result>>
    /\ UNCHANGED <<clientVars, fetchVars>>

\* lines 172-214: the aggregation and the returned dict
Aggregate ==
    /\ apc = "loop" /\ i > Len(markets)
    /\ avg_bullish' = Average(bullish_signals)
    /\ avg_bearish' = Average(bearish_signals)
    /\ diff' = RatAbsDiff(avg_bullish', avg_bearish')
    /\ direction' = Decide(avg_bullish', avg_bearish').direction
    /\ confidence' = Decide(avg_bullish', avg_bearish').confidence
    /\ signal_strength' = SignalStrength(diff', confidence')
    /\ \E c \in Round3(confidence'), b \in Round3(avg_bullish'), r \in Round3(avg_bearish') :
          result' = [direction |-> direction', confidence |-> c,
                     signal_strength |-> signal_strength',
                     markets_analyzed |-> Len(markets),
                     bullish_probability |-> b, bearish_probability |-> r,
                     markets |-> analyzed]
    /\ apc' = "done"
    /\ UNCHANGED <<markets, i, bullish_signals, bearish_signals, analyzed>>
    /\ UNCHANGED <<clientVars, fetchVars>>

\* lines 190-195 alone, on a difference and a confidence taken from the grid
ClassifyStrength ==
    /\ apc = "strength"
    /\ signal_strength' = SignalStrength(diff, confidence)
    /\ apc' = "done"
    /\ UNCHANGED <<markets, i, bullish_signals, bearish_signals, analyzed,
                   avg_bullish, avg_bearish, diff, direction, confidence, result>>
    /\ UNCHANGED <<clientVars, fetchVars>>

---------------------------------------------------------------------------
(* fetch_crypto_markets *)

\* max_retries = 3; await asyncio.sleep(2)
max_retries == 3
SleepSeconds == 2

BucketNames == {"hourly", "4hour", "daily", "weekly", "other"}

PriceKeywords == {<<"P", "R", "I", "C", "E">>, <<"A", "B", "O", "V", "E">>, <<"B", "E", "L", "O", "W">>, <<"R", "E", "A", "C", "H">>, <<"H", "I", "G", "H", "E", "R">>, <<"L", "O", "W", "E", "R">>, <<"C", "L", "O", "S", "E">>}
HourlyKeywords == {<<"H", "O", "U", "R">>, <<"H", "O", "U", "R", "L", "Y">>, <<"1", "H">>, <<"1", " ", "H", "O", "U", "R">>}
FourHourKeywords == {<<"4", " ", "H", "O", "U", "R">>, <<"4", "H">>, <<"4", "-", "H", "O", "U", "R">>}
DailyKeywords == {<<"D", "A", "Y">>, <<"D", "A", "I", "L", "Y">>, <<"2", "4", "H">>, <<"2", "4", " ", "H", "O", "U", "R">>, <<"T", "O", "D", "A", "Y">>, <<"T", "O", "M", "O", "R", "R", "O", "W">>}
WeeklyKeywords == {<<"W", "E", "E", "K">>, <<"W", "E", "E", "K", "L", "Y">>, <<"7", " ", "D", "A", "Y">>}

\* An element of the response: a dict, or something that is not a dict.
Dict(d) == [isdict |-> TRUE, d |-> d]
NotADict == [isdict |-> FALSE, d |-> [repr |-> "a string"]]

Q_Eth4hClose == <<"e", "t", "h", " ", "4", "h", " ", "c", "l", "o", "s", "e">>
Q_ReachThisWeek == <<"E", "T", "H", " ", "t", "o", " ", "r", "e", "a", "c", "h", " ", "5", "0", "0", "0", " ", "t", "h", "i", "s", " ", "w", "e", "e", "k">>
Q_Reach == <<"E", "T", "H", " ", "t", "o", " ", "r", "e", "a", "c", "h", " ", "5", "0", "0", "0">>
Q_BtcEthHourly == <<"B", "T", "C", " ", "v", "s", " ", "E", "T", "H", " ", "h", "o", "u", "r", "l", "y", " ", "c", "l", "o", "s", "e">>
Q_MergeDate == <<"E", "T", "H", " ", "m", "e", "r", "g", "e", " ", "d", "a", "t", "e">>

\* The elements a response of GET /markets is made of.
FetchCatalog ==
    { Dict([question |-> Q_Price24Hour,   active |-> TRUE,  closed |-> FALSE]),
      Dict([question |-> Q_AboveFriday,   active |-> TRUE,  closed |-> FALSE]),
      Dict([question |-> Q_Eth4hClose,    active |-> TRUE,  closed |-> FALSE]),
      Dict([question |-> Q_ReachThisWeek, active |-> TRUE,  closed |-> FALSE]),
      Dict([question |-> Q_Reach,         active |-> TRUE,  closed |-> FALSE]),
      Dict([question |-> Q_BtcEthHourly,  active |-> TRUE,  closed |-> FALSE]),
      Dict([question |-> Q_Price24Hour,   active |-> TRUE,  closed |-> TRUE]),
      Dict([question |-> Q_MergeDate,     active |-> TRUE,  closed |-> FALSE]),
      Dict([question |-> Q_Reach]),
      NotADict }

Symbols == {<<"e", "t", "h">>, <<"B", "T", "C">>}

\* lines 59-65
EmptyBuckets == [b \in BucketNames |-> <<>>]

\* lines 68-80: whether the loop reaches the classification for this element
Relevant(market, symbol_upper) ==
    /\ market.isdict
    /\ LET question == Upper(Get(market.d, "question", <<>>))
           active == Get(market.d, "active", FALSE)
           closed == Get(market.d, "closed", TRUE)
       IN  /\ active /\ ~closed /\ Contains(question, symbol_upper)
           /\ AnyIn(question, PriceKeywords)

\* lines 83-92 with independent ifs in place of the elif chain
ClassifyEveryMatch(cat, question, pos) ==
    LET hit == [b \in BucketNames |->
                  CASE b = "hourly" -> AnyIn(question, HourlyKeywords)
                    [] b = "4hour" -> AnyIn(question, FourHourKeywords)
                    [] b = "daily" -> AnyIn(question, DailyKeywords)
                    [] b = "weekly" -> AnyIn(question, WeeklyKeywords)
                    [] OTHER -> ~(AnyIn(question, HourlyKeywords)
                                  \/ AnyIn(question, FourHourKeywords)
                                  \/ AnyIn(question, DailyKeywords)
                                  \/ AnyIn(question, WeeklyKeywords))]
    IN  [b \in BucketNames |-> IF hit[b] THEN Append(cat[b], pos) ELSE cat[b]]

\* lines 83-92: the bucket of a question (upper-cased), first match wins
Timeframe(question) ==
    IF AnyIn(question, HourlyKeywords) THEN "hourly"
    ELSE IF AnyIn(question, FourHourKeywords) THEN "4hour"
    ELSE IF AnyIn(question, DailyKeywords) THEN "daily"
    ELSE IF AnyIn(question, WeeklyKeywords) THEN "weekly"
    ELSE "other"

\* lines 83-92: categorized[...].append(market); a market is held by its
\* position in the response, as the code holds the element itself
Classify(cat, question, pos) == [cat EXCEPT ![Timeframe(question)] = Append(@, pos)]

\* lines 52-55 never giving up
OnTimeoutAlwaysSleep(a) == "sleep"

\* lines 52-55: what the except clause does on attempt a
OnTimeout(a) == IF a = max_retries - 1 THEN "raise" ELSE "sleep"

FetchIdle ==
    /\ fpc = "idle" /\ symbol = <<>> /\ attempt = 0 /\ events = <<>> /\ err = ""
    /\ fetched = <<>> /\ idx = 0 /\ categorized = <<>>

\* c.fetch_crypto_markets(symbol): the caller starts its one execution
FetchCall ==
    /\ fpc = "idle"
    /\ \E s \in Symbols : symbol' = s
    /\ attempt' = 0
    /\ fpc' = "attempt"
    /\ UNCHANGED <<events, err, fetched, idx, categorized>>
    /\ UNCHANGED <<clientVars, analyzeVars>>

\* lines 28-29: _get on a client that holds no session
GetNoSession ==
    /\ fpc = "attempt" /\ session = "none"
    /\ err' = "RuntimeError"
    /\ fpc' = "raised"
    /\ UNCHANGED <<events, symbol, attempt, fetched, idx, categorized>>
    /\ UNCHANGED <<clientVars, analyzeVars>>

\* lines 30-33, 50-51, 58-65: the request succeeds, the loop breaks
GetOk ==
    /\ fpc = "attempt" /\ session = "open"
    /\ events' = Append(events, "ok")
    /\ \E response \in SeqsUpTo(FetchCatalog, MaxFetched) : fetched' = response
    /\ categorized' = EmptyBuckets
    /\ idx' = 1
    /\ fpc' = "filter"
    /\ UNCHANGED <<symbol, attempt, err>>
    /\ UNCHANGED <<clientVars, analyzeVars>>

\* lines 52-55: the request times out
GetTimeout ==
    /\ fpc = "attempt" /\ session = "open"
    /\ events' = Append(events, "timeout")
    /\ IF OnTimeout(attempt) = "raise"
       THEN fpc' = "raised" /\ err' = "TimeoutError"
       ELSE fpc' = "sleep" /\ err' = err
    /\ UNCHANGED <<symbol, attempt, fetched, idx, categorized>>
    /\ UNCHANGED <<clientVars, analyzeVars>>

\* line 32: raise_for_status (or any failure that is no timeout) leaves the loop
GetError ==
    /\ fpc = "attempt" /\ session = "open"
    /\ events' = Append(events, "error")
    /\ fpc' = "raised" /\ err' = "ClientResponseError"
    /\ UNCHANGED <<symbol, attempt, fetched, idx, categorized>>
    /\ UNCHANGED <<clientVars, analyzeVars>>

\* line 55 and the next turn of for attempt in range(max_retries); a loop that
\* ran out leaves markets unbound at line 67
Sleep ==
    /\ fpc = "sleep"
    /\ events' = Append(events, "sleep")
    /\ attempt' = attempt + 1
    /\ IF attempt + 1 < max_retries
       THEN fpc' = "attempt" /\ err' = err
       ELSE fpc' = "raised" /\ err' = "UnboundLocalError"
    /\ UNCHANGED <<symbol, fetched, idx, categorized>>
    /\ UNCHANGED <<clientVars, analyzeVars>>

\* lines 67-92: one turn of the loop over markets
FilterStep ==
    /\ fpc = "filter" /\ idx <= Len(fetched)
    /\ LET market == fetched[idx]
           symbol_upper == Upper(symbol)
       IN  IF Relevant(market, symbol_upper)
           THEN categorized' = Classify(categorized, Upper(Get(market.d, "question", <<>>)), idx)
           ELSE categorized' = categorized
    /\ idx' = idx + 1
    /\ UNCHANGED <<fpc, symbol, attempt, events, err, fetched>>
    /\ UNCHANGED <<clientVars, analyzeVars>>

\* line 94
FetchReturn ==
    /\ fpc = "filter" /\ idx > Len(fetched)
    /\ fpc' = "returned"
    /\ UNCHANGED <<symbol, attempt, events, err, fetched, idx, categorized>>
    /\ UNCHANGED <<clientVars, analyzeVars>>

---------------------------------------------------------------------------
(* The session: __init__, __aenter__, __aexit__ and the caller's async with *)

ClientInit == session = "none" /\ opened = 0 /\ released = 0 /\ scope = "before"

\* lines 18-20, entered by async with PolymarketClient() as c
AEnter ==
    /\ scope = "before" /\ fpc = "idle"
    /\ session' = "open"
    /\ opened' = opened + 1
    /\ scope' = "inside"
    /\ UNCHANGED <<released>>
    /\ UNCHANGED <<fetchVars, analyzeVars>>

\* lines 22-25 leaving the session open when the body raised
AExitOnReturnOnly ==
    /\ scope = "inside" /\ fpc \in {"idle", "returned", "raised"}
    /\ IF session = "open" /\ fpc # "raised"
       THEN session' = "none" /\ released' = released + 1
       ELSE UNCHANGED <<session, released>>
    /\ scope' = "after"
    /\ UNCHANGED <<opened>>
    /\ UNCHANGED <<fetchVars, analyzeVars>>

\* lines 22-25: async with runs __aexit__ when its body ends, by its last
\* statement or by an exception
AExit ==
    /\ scope = "inside" /\ fpc \in {"idle", "returned", "raised"}
    /\ IF session = "open"
       THEN session' = "none" /\ released' = released + 1
       ELSE UNCHANGED <<session, released>>
    /\ scope' = "after"
    /\ UNCHANGED <<opened>>
    /\ UNCHANGED <<fetchVars, analyzeVars>>

---------------------------------------------------------------------------
(* Specifications *)

\* One client, one caller: the caller may run fetch_crypto_markets inside
\* its async with (as demo does) or on a client that holds no session.
Init == ClientInit /\ FetchIdle /\ AnalyzeIdle

Next ==
    \/ AEnter
    \/ AExit
    \/ FetchCall
    \/ GetNoSession
    \/ GetOk
    \/ GetTimeout
    \/ GetError
    \/ Sleep
    \/ FilterStep
    \/ FetchReturn

Spec == Init /\ [][Next]_vars

\* analyze_markets on every list of up to MaxMarkets catalogue markets
InitAnalyze ==
    /\ ClientInit /\ FetchIdle
    /\ apc = "start" /\ markets \in SeqsUpTo(AnalyzeCatalog, MaxMarkets) /\ i = 0
    /\ bullish_signals = <<>> /\ bearish_signals = <<>> /\ analyzed = <<>>
    /\ avg_bullish = Zero /\ avg_bearish = Zero /\ diff = Zero
    /\ direction = "" /\ confidence = Zero /\ signal_strength = ""
    /\ result = [direction |-> ""]

NextAnalyze == AnalyzeEmpty \/ AnalyzeBegin \/ AnalyzeMarket \/ Aggregate

SpecAnalyze == InitAnalyze /\ [][NextAnalyze]_vars

\* the strength thresholds on every difference and confidence of the grid
Percent(p) == Rat(Dec(p, 2), 1)

InitStrength ==
    /\ ClientInit /\ FetchIdle
    /\ apc = "strength" /\ markets = <<>> /\ i = 0
    /\ bullish_signals = <<>> /\ bearish_signals = <<>> /\ analyzed = <<>>
    /\ avg_bullish = Zero /\ avg_bearish = Zero
    /\ diff \in {Percent(p) : p \in 0..MaxPercent}
    /\ confidence \in {Percent(p) : p \in 0..MaxPercent}
    /\ direction = "" /\ signal_strength = ""
    /\ result = [direction |-> ""]

NextStrength == ClassifyStrength

SpecStrength == InitStrength /\ [][NextStrength]_vars

---------------------------------------------------------------------------
(* Properties of analyze_markets, checked under SpecAnalyze *)

\* the mean of xs is the value a, or a is 0.5 when xs is empty
IsMeanOrHalf(a, xs) ==
    IF xs = <<>> THEN 2 * a.num = Scale * a.den
    ELSE a.num * Len(xs) = Sum(xs) * a.den

(* C1: for a non-empty list, direction and confidence come from the        *)
(* unrounded means of the two accumulators (0.5 for an empty accumulator): *)
(* buy with confidence avg_bullish when avg_bullish > avg_bearish, sell    *)
(* with confidence avg_bearish when avg_bearish > avg_bullish, neutral     *)
(* with confidence exactly 0.5 when they are equal.                        *)
C1_DirectionFromUnrounded ==
    (apc = "done" /\ markets # <<>>) =>
        /\ IsMeanOrHalf(avg_bullish, bullish_signals)
        /\ IsMeanOrHalf(avg_bearish, bearish_signals)
        /\ RatGt(avg_bullish, avg_bearish) =>
              direction = "buy" /\ RatEq(confidence, avg_bullish)
        /\ RatGt(avg_bearish, avg_bullish) =>
              direction = "sell" /\ RatEq(confidence, avg_bearish)
        /\ RatEq(avg_bullish, avg_bearish) =>
              direction = "neutral" /\ 2 * confidence.num = Scale * confidence.den
        /\ (bullish_signals = <<>> /\ bearish_signals = <<>>) => direction = "neutral"
        /\ result.direction = direction

\* a buy decided by a difference the rounding to three decimals hides
C1_Witness ==
    /\ apc = "done" /\ direction = "buy"
    /\ result.bullish_probability = result.bearish_probability

\* the claim's classes of questions
HasBullishWord(question) ==
    \E kw \in {<<"a", "b", "o", "v", "e">>, <<"h", "i", "g", "h", "e", "r">>, <<"r", "e", "a", "c", "h">>, <<"e", "x", "c", "e", "e", "d">>} : Contains(Lower(question), kw)
HasBearishWord(question) ==
    \E kw \in {<<"b", "e", "l", "o", "w">>, <<"l", "o", "w", "e", "r">>, <<"f", "a", "l", "l">>, <<"d", "r", "o", "p">>} : Contains(Lower(question), kw)

\* a list with a bullish-phrased and a bearish-phrased market
Mixed(ms) ==
    /\ \E k \in 1..Len(ms) : HasBullishWord(ms[k].question)
    /\ \E k \in 1..Len(ms) : HasBearishWord(ms[k].question) /\ ~HasBullishWord(ms[k].question)

\* the accumulators after the loop has run over ms
RECURSIVE Accumulate(_)
Accumulate(ms) ==
    IF ms = <<>> THEN [bullish |-> <<>>, bearish |-> <<>>]
    ELSE LET m == ms[Len(ms)]
         IN  Interpret(Accumulate(SubSeq(ms, 1, Len(ms) - 1)),
                       Get(m, "question", <<>>), YesPrice(m))

SumsToOne(a, b) == RatEq(RatAdd(a, b), One)

(* C2 as stated: among the lists analyze_markets can be called with, some *)
(* non-empty list that mixes bullish-phrased and bearish-phrased markets   *)
(* has avg_bullish + avg_bearish different from 1.                         *)
C2_SomeMixedListNotComplementary ==
    apc = "start" =>
    \E ms \in SeqsUpTo(AnalyzeCatalog, MaxMarkets) :
        /\ Mixed(ms)
        /\ LET acc == Accumulate(ms)
           IN  ~SumsToOne(Average(acc.bullish), Average(acc.bearish))

(* C2 as amended: the two accumulators always hold the same number of      *)
(* samples, the k-th samples add up to 1, and so for every non-empty list, *)
(* mixed or not, avg_bullish + avg_bearish = 1 in exact arithmetic.        *)
C2_AveragesComplementary ==
    /\ Len(bullish_signals) = Len(bearish_signals)
    /\ \A k \in 1..Len(bullish_signals) : bullish_signals[k] + bearish_signals[k] = Scale
    /\ (apc = "done" /\ markets # <<>>) => SumsToOne(avg_bullish, avg_bearish)

\* a mixed list, analysed, whose samples are not all one half
C2_Witness ==
    /\ apc = "done" /\ Mixed(markets)
    /\ \E k \in 1..Len(bullish_signals) : bullish_signals[k] # bearish_signals[k]
    /\ result.bullish_probability + result.bearish_probability = 1000

(* C3: a question with both a bullish and a bearish keyword is bullish     *)
(* only: its turn of the loop appends yes_probability to the bullish       *)
(* accumulator and 1 - yes_probability to the bearish one, one sample      *)
(* each, and nothing else.                                                 *)
C3_BothKeywordsBullishOnly ==
    [][ (/\ apc = "loop" /\ i <= Len(markets)
         /\ HasBullishWord(markets[i].question)
         /\ HasBearishWord(markets[i].question))
        => LET yes == analyzed'[i].yes_probability
           IN  /\ bullish_signals' = Append(bullish_signals, yes)
               /\ bearish_signals' = Append(bearish_signals, Scale - yes) ]_vars

\* a question with both keywords has been through the loop, with a yes
\* price that tells the two branches apart
C3_Witness ==
    /\ apc = "loop" /\ i = 2
    /\ HasBullishWord(markets[1].question) /\ HasBearishWord(markets[1].question)
    /\ bullish_signals = <<Dec(8, 1)>> /\ bearish_signals = <<Dec(2, 1)>>

\* the text of outcomePrices when the record has one that is a str
PricesText(market) ==
    IF "outcomePrices" \in DOMAIN market /\ market.outcomePrices.t = "str"
    THEN <<market.outcomePrices.s>>
    ELSE <<>>

\* the comma-separated elements of that text
Elements(market) == IF PricesText(market) = <<>> THEN <<>> ELSE Split(PricesText(market)[1])

FirstParses(market) ==
    /\ PricesText(market) # <<>> /\ PricesText(market)[1] # <<>>
    /\ ParseFloat(Elements(market)[1]).ok

AllParse(market) ==
    /\ PricesText(market) # <<>> /\ PricesText(market)[1] # <<>>
    /\ \A k \in 1..Len(Elements(market)) : ParseFloat(Elements(market)[k]).ok

(* C7 as stated: yes_probability is the parsed first comma-separated       *)
(* element whenever that element is present and parses, and 0.5 otherwise. *)
C7_FirstElementDecides ==
    \A k \in 1..Len(analyzed) :
        analyzed[k].yes_probability =
            IF FirstParses(markets[k]) THEN ParseFloat(Elements(markets[k])[1]).v
            ELSE Dec(5, 1)

(* C7 as amended: yes_probability is the parsed first element when         *)
(* outcomePrices is a non-empty str all of whose comma-separated elements  *)
(* parse, and 0.5 otherwise (missing, empty, not a str, or any element not *)
(* numeric); no value of outcomePrices stops the loop, and every market of *)
(* the list is analysed.                                                   *)
C7_AllElementsDecide ==
    /\ \A k \in 1..Len(analyzed) :
          /\ analyzed[k].yes_probability =
                IF AllParse(markets[k]) THEN ParseFloat(Elements(markets[k])[1]).v
                ELSE Dec(5, 1)
          /\ analyzed[k].no_probability = Scale - analyzed[k].yes_probability
          /\ analyzed[k].question = markets[k].question
    /\ apc = "loop" => Len(analyzed) = i - 1
    /\ (apc = "done" /\ markets # <<>>) =>
          /\ Len(analyzed) = Len(markets)
          /\ result.markets = analyzed

\* a list analysed to its end that holds a market whose first element parses
\* and whose second does not, and a market analysed after it
C7_Witness ==
    /\ apc = "done" /\ Len(markets) >= 2
    /\ FirstParses(markets[1]) /\ ~AllParse(markets[1])
    /\ analyzed[1].yes_probability = Dec(5, 1)
    /\ analyzed[2].yes_probability = Dec(8, 1)

---------------------------------------------------------------------------
(* The strength thresholds, checked under SpecStrength *)

\* x > n / 10^places
Above(x, n, places) == x.num * Pow10(places) > n * Scale * x.den

(* C6: strong iff diff > 0.3 and confidence > 0.7, otherwise moderate iff  *)
(* diff > 0.15 and confidence > 0.6, otherwise weak; diff = 0.3 with       *)
(* confidence = 0.7 is moderate, diff = 0.31 with confidence = 0.71 strong.*)
C6_StrictThresholds ==
    apc = "done" =>
        LET strong == Above(diff, 3, 1) /\ Above(confidence, 7, 1)
            moderate == ~strong /\ Above(diff, 15, 2) /\ Above(confidence, 6, 1)
        IN  /\ signal_strength = "strong" <=> strong
            /\ signal_strength = "moderate" <=> moderate
            /\ signal_strength = "weak" <=> (~strong /\ ~moderate)
            /\ (RatEq(diff, Percent(30)) /\ RatEq(confidence, Percent(70)))
                  => signal_strength = "moderate"
            /\ (RatEq(diff, Percent(31)) /\ RatEq(confidence, Percent(71)))
                  => signal_strength = "strong"

\* the boundary itself has been classified
C6_Witness ==
    /\ apc = "done" /\ signal_strength = "moderate"
    /\ RatEq(diff, Percent(30)) /\ RatEq(confidence, Percent(70))

---------------------------------------------------------------------------
(* Properties of fetch_crypto_markets and of the session, checked under Spec *)

\* how often position pos occurs in bucket b
Occurrences(b, pos) == Cardinality({k \in 1..Len(categorized[b]) : categorized[b][k] = pos})

\* how often position pos occurs in the five buckets together
TotalOccurrences(pos) ==
    Occurrences("hourly", pos) + Occurrences("4hour", pos) + Occurrences("daily", pos)
        + Occurrences("weekly", pos) + Occurrences("other", pos)

\* the claim's relevance filter: active, not closed, the question contains
\* the symbol and a price keyword, whatever the case of the letters
PassesFilter(market, sym) ==
    /\ market.isdict
    /\ "active" \in DOMAIN market.d /\ market.d.active
    /\ "closed" \in DOMAIN market.d /\ ~market.d.closed
    /\ "question" \in DOMAIN market.d
    /\ LET q == Lower(market.d.question)
       IN  /\ Contains(q, Lower(sym))
           /\ \E kw \in {<<"p", "r", "i", "c", "e">>, <<"a", "b", "o", "v", "e">>, <<"b", "e", "l", "o", "w">>, <<"r", "e", "a", "c", "h">>, <<"h", "i", "g", "h", "e", "r">>, <<"l", "o", "w", "e", "r">>, <<"c", "l", "o", "s", "e">>} :
                 Contains(q, kw)

(* C4: the result has exactly the keys hourly, 4hour, daily, weekly,       *)
(* other; every record that passes the relevance filter is in exactly one  *)
(* bucket, once; no other record is in any bucket; and each bucket keeps   *)
(* the order of the response.                                              *)
C4_Partition ==
    fpc \in {"filter", "returned"} =>
        /\ DOMAIN categorized = {"hourly", "4hour", "daily", "weekly", "other"}
        /\ fpc = "returned" => idx = Len(fetched) + 1
        /\ \A pos \in 1..Len(fetched) :
              TotalOccurrences(pos) =
                  IF pos < idx /\ PassesFilter(fetched[pos], symbol) THEN 1 ELSE 0
        /\ \A b \in DOMAIN categorized :
              /\ \A k \in 1..Len(categorized[b]) : categorized[b][k] \in 1..Len(fetched)
              /\ \A j, k \in 1..Len(categorized[b]) :
                    j < k => categorized[b][j] < categorized[b][k]

\* a returned result with two records in one bucket, a record in another
\* bucket between them, and nothing else
C4_Witness ==
    /\ fpc = "returned" /\ Len(fetched) = 3
    /\ \E b \in DOMAIN categorized : categorized[b] = <<1, 3>> /\ fetched[1] # fetched[3]
    /\ \E b \in DOMAIN categorized : categorized[b] = <<2>>

(* C5: an active, not closed market whose question is "ETH price 24 hour   *)
(* high", fetched for the symbol ETH, is in the bucket daily.              *)
C5_Price24HourIsDaily ==
    \A pos \in 1..Len(fetched) :
        (/\ fpc \in {"filter", "returned"} /\ pos < idx
         /\ Upper(symbol) = <<"E", "T", "H">>
         /\ fetched[pos] = Dict([question |-> Q_Price24Hour, active |-> TRUE, closed |-> FALSE]))
        => Occurrences("daily", pos) = 1

\* the requests of this execution
Requests == {k \in 1..Len(events) : events[k] \in {"ok", "timeout", "error"}}
Sleeps == {k \in 1..Len(events) : events[k] = "sleep"}

(* C9: an execution calls the endpoint at most 3 times; an attempt after   *)
(* the first follows a timed-out attempt and one 2-second sleep, and is    *)
(* made only while fewer than 3 attempts were made; a timeout on the 3rd   *)
(* attempt leaves as TimeoutError with no sleep after it; a failure that   *)
(* is no timeout leaves at once, with no sleep and no further attempt; the *)
(* first success ends the loop and the filter runs on its response.        *)
C9_RetryDiscipline ==
    /\ Cardinality(Requests) <= 3
    /\ SleepSeconds * Cardinality(Sleeps) <= 2 * (3 - 1)
    /\ \A k \in 1..Len(events) :
          /\ (k \in Requests /\ k > 1) => (events[k - 1] = "sleep")
          /\ events[k] = "sleep" => (k > 1 /\ events[k - 1] = "timeout")
          /\ events[k] \in {"ok", "error"} => k = Len(events)
          /\ events[k] = "timeout" =>
                IF Cardinality({j \in Requests : j <= k}) = 3
                THEN k = Len(events) /\ fpc = "raised" /\ err = "TimeoutError"
                ELSE \/ (k = Len(events) /\ fpc = "sleep")
                     \/ (k < Len(events) /\ events[k + 1] = "sleep")
    /\ (events # <<>> /\ events[Len(events)] = "error") =>
          (fpc = "raised" /\ err = "ClientResponseError")
    /\ (events # <<>> /\ events[Len(events)] = "ok") =>
          (fpc \in {"filter", "returned"} /\ err = "")
    /\ fpc \in {"filter", "returned"} => (events # <<>> /\ events[Len(events)] = "ok")
    /\ fpc = "attempt" => Cardinality(Requests) = attempt /\ attempt < 3
    /\ err \in {"", "RuntimeError", "TimeoutError", "ClientResponseError"}

\* three timeouts with a sleep between them, and the third one propagates
C9_Witness ==
    /\ fpc = "raised" /\ err = "TimeoutError"
    /\ events = <<"timeout", "sleep", "timeout", "sleep", "timeout">>

\* the session is open only inside the async with, and closed after it
C10_Scoped ==
    /\ session = "open" => scope = "inside"
    /\ scope = "inside" => (session = "open" /\ opened = released + 1)
    /\ scope = "before" => (session = "none" /\ opened = 0 /\ released = 0)
    /\ scope = "after" => (session = "none" /\ opened = 1 /\ released = 1)

\* a request on a client that holds no session raises and contacts nothing;
\* anything that reaches the data source goes through an open session
C10_NoSessionNoRequest ==
    /\ (fpc = "attempt" /\ session = "none") =>
          (fpc' = "raised" /\ err' = "RuntimeError" /\ events' = events)
    /\ events' # events => session = "open"

(* C10: the session is open only between __aenter__ and __aexit__; when   *)
(* the async with is left - by return, by exhausted timeouts or by a       *)
(* failure that is no timeout - the session is closed and the client holds *)
(* none; a request on a client that holds no session fails without         *)
(* contacting the data source.                                             *)
C10_SessionScoped == []C10_Scoped /\ [][C10_NoSessionNoRequest]_vars

\* the async with has been left by the TimeoutError of the third attempt
C10_Witness ==
    /\ scope = "after" /\ fpc = "raised" /\ err = "TimeoutError"
    /\ session = "none" /\ released = 1

====
